---- MODULE Spec2Model ----
(***************************************************************************)
(* A model of the efficiency benchmark.                                    *)
(*                                                                         *)
(*  - src/docker/execute.py: the monitoring harness (the script's main     *)
(*    block) that launches the energy-sampler container, spawns the GPU    *)
(*    and container-stats samplers, runs the workload command, signals     *)
(*    the samplers and aggregates their CSV files.                         *)
(*  - src/submission/mt_mbart/entrypoint.py: the workload wrapper          *)
(*    stdio_predictor_wrapper and the MBART predictor it wraps.            *)
(*  - src/efficiency_benchmark/__main__.py: the run and submit commands.   *)
(***************************************************************************)
EXTENDS Integers, Sequences, FiniteSets, TLC

VARIABLES
    \* ---- src/docker/execute.py ----
    pc,          \* the statement the harness is about to execute
    proc,        \* per sampler: unstarted, running, exit0, exitN
    startedAt,   \* per sampler: the clock when it was started, -1 before
    signalledAt, \* per sampler: the clock when SIGTERM was sent to it, -1 before
    exists,      \* per sampler: its CSV file exists
    rows,        \* per sampler: the data rows of its CSV file
    now,         \* the clock time.time() reads: one tick per harness statement
    start_time,  \* -1 while unbound
    end_time,    \* -1 while unbound
    status,      \* exit status of os.system, -1 while unbound
    pollSeen,    \* per polled sampler: what Popen.poll() found
    opened,      \* sampler CSVs the aggregator has opened
    counted,     \* per sampler: how many rows the aggregator has consumed
    output,      \* the lines printed to stdout
    abortCause,  \* the uncaught exception that ended the script, or "none"
    num_cpus,    \* multiprocessing.cpu_count()
    gpu_energy,  \* the aggregator's locals of the same names: exact rationals
    max_gpu_mem,
    cpu_energy,
    mem_energy,
    cpu_util,
    mem_util,
    max_mem_util,
    num_rows,
    total_memory, \* GiB, 0 while unbound
    report,       \* the values handed to the print statements of the report
    \* ---- src/efficiency_benchmark/__main__.py and the prediction step ----
    cmd,            \* the command invoked: "run" or "submit"
    limitOpt,       \* the -l option as given: {} when absent, {k} otherwise
    outputDirOpt,   \* the --output_dir option as given: {} when absent, or {d}
    scenario,       \* single_stream, fixed_batch, random_batch, offline
    max_batch_size,
    instances,      \* the task's input sequence
    limit,          \* the limit handed to the scheduler: {} for None, or {k}
    scheduled,      \* the input sequence after truncation by the limit
    spc,            \* the scheduler's position
    inflight,       \* size of the request awaiting its response, 0 if none
    results,        \* the reassembled outputs
    batchSizes,     \* sizes of the requests issued so far
    sentLog,        \* the request lines the scheduler has written
    recvLog,        \* the response lines the scheduler has read
    \* ---- the locals of run and the file system it writes to ----
    output_dir,     \* run's local output_dir: {} for None, or {d}
    oserror,        \* os.makedirs of the output directory has raised OSError
    made,           \* the directories run has created
    output_file,    \* the output_file handed to tabulate_efficiency_metrics
    written,        \* the files written under the output directory
    \* ---- the pipes between the scheduler and the workload ----
    stdin,          \* lines written to the workload's stdin, not yet read
    stdinOpen,      \* the write end of the workload's stdin is open
    stdoutBuf,      \* lines in the workload's stdout buffer, not yet flushed
    pipeOut,        \* flushed lines of the workload's stdout, not yet read
    \* ---- src/submission/mt_mbart/entrypoint.py ----
    wpc,            \* the statement stdio_predictor_wrapper is about to execute
    line,           \* its local `line`
    inputs,         \* its local `inputs`
    outputs,        \* its local `outputs`
    reqLog,         \* the lines it has read from stdin
    respLog,        \* the lines it has written to stdout
    yielded,        \* how many outputs the predictor had yielded when it
                    \* raised, -1 while it has not
    \* ---- src/efficiency_benchmark/dependencies/lm_eval/tasks/drop.py ----
    qa,             \* the argument of DROP.get_answers
    dpc,            \* the statement get_answers is about to execute
    candidates,     \* its local `candidates`
    seen,           \* how many candidates the loop has been through
    answers,        \* its local `answers`
    answers_set     \* its local `answers_set`

hvars == <<pc, proc, startedAt, signalledAt, exists, rows, now, start_time, end_time,
           status, pollSeen, opened, counted, output, abortCause>>

\* The locals of the aggregation.
mvars == <<num_cpus, gpu_energy, max_gpu_mem, cpu_energy, mem_energy, cpu_util,
           mem_util, max_mem_util, num_rows, total_memory, report>>

\* All the variables of src/docker/execute.py.
evars == <<hvars, mvars>>

cfgVars == <<cmd, limitOpt, outputDirOpt, scenario, max_batch_size, instances>>

schedVars == <<limit, scheduled, spc, inflight, results, batchSizes, sentLog,
               recvLog>>

chanVars == <<stdin, stdinOpen, stdoutBuf, pipeOut>>

wrapVars == <<wpc, line, inputs, outputs, reqLog, respLog>>

runVars == <<output_dir, oserror, made, output_file, written>>

dvars == <<qa, dpc, candidates, seen, answers, answers_set>>

ivars == <<cfgVars, schedVars, runVars, chanVars, wrapVars, yielded, dvars>>

vars == <<evars, ivars>>

----------------------------------------------------------------------------
(* Bounds of the model. *)

\* Largest number of validated answers of a DROP question.
MaxValidated == 2

\* Total number of telemetry rows the three samplers write in one run.
MaxRows == 2

\* Longest input sequence of a task.
MaxInstances == 3

\* Largest value of the --max_batch_size option.
MaxBatch == 2

\* Largest size of the host's memory, in GiB.
MaxMemory == 2

\* Largest number of logical CPUs of the host.
MaxCpus == 2

\* Largest number of data rows of one CSV file handed to the aggregation.
MaxFileRows == 2

\* Largest number of instances of the task the throughput is computed for.
MaxItems == 2

----------------------------------------------------------------------------
(* src/docker/execute.py *)

\* The three samplers: p_gpu (line 39), p_docker (line 40) and the
\* container running profile_cpu.py (line 26).
Samplers == {"gpu", "docker", "energy"}

\* The two samplers that are subprocess.Popen objects and are polled.
PopenSamplers == {"gpu", "docker"}

\* The phase of the run a row is written in: 0 before start_time is taken,
\* 1 inside the measured interval, 2 after end_time is taken.
Phase ==
    IF start_time = -1 THEN 0 ELSE IF end_time = -1 THEN 1 ELSE 2

Started(s) == startedAt[s] # -1

Signalled(s) == signalledAt[s] # -1

TotalRows == Len(rows["gpu"]) + Len(rows["docker"]) + Len(rows["energy"])

\* `not p.poll()`: poll() is None while the process runs and its return code
\* once it has exited; None and 0 are falsy, a non-zero return code (exitN:
\* 1 for a crash, -15 for a death by SIGTERM) is truthy.
PollFalsy(s) == proc[s] \in {"running", "exit0"}

HaltedLine(s) ==
    IF s = "gpu" THEN "GPU monitor correctly halted"
    ELSE "Docker monitor correctly halted"

\* Control passes to statement `next`; the clock has moved on.
Goto(next) ==
    /\ pc' = next
    /\ now' = now + 1

\* An uncaught exception ends the script.
Abort(cause) ==
    /\ Goto("aborted")
    /\ abortCause' = cause

(* The arithmetic of the aggregation.  Python floats are modelled as exact *)
(* non-negative rationals [n |-> numerator, d |-> denominator] in lowest   *)
(* terms; the rounding of binary floating point (relative error 2^-53) is  *)
(* not modelled.                                                           *)

RECURSIVE Gcd(_, _)
Gcd(a, b) == IF b = 0 THEN a ELSE Gcd(b, a % b)

\* The fraction a/b in lowest terms, for a >= 0 and b > 0.
Rat(a, b) == [n |-> a \div Gcd(a, b), d |-> b \div Gcd(a, b)]

\* float(field) of a field that holds the decimal numeral of k.
Float(k) == Rat(k, 1)

\* x + y
RAdd(x, y) ==
    LET g == Gcd(x.d, y.d)
    IN  Rat(x.n * (y.d \div g) + y.n * (x.d \div g), (x.d \div g) * y.d)

\* x * y
RMul(x, y) ==
    LET g1 == Gcd(x.n, y.d)
        g2 == Gcd(y.n, x.d)
    IN  [n |-> (x.n \div g1) * (y.n \div g2), d |-> (x.d \div g2) * (y.d \div g1)]

\* x / y, for y # 0 (Python raises ZeroDivisionError otherwise).
RDiv(x, y) == RMul(x, [n |-> y.d, d |-> y.n])

\* x <= y
RLe(x, y) == x.n * y.d <= y.n * x.d

\* max(x, y)
RMax(x, y) == IF RLe(y, x) THEN x ELSE y

Zero == Float(0)

\* The row count starts from zero.
num_rows_start_zero == Float(0)

\* Line 71: num_rows = 1e-6.
num_rows_start == Rat(1, 1000000)

\* A data row of sampler s's CSV file, written in phase ph; ok tells whether
\* float() can parse its fields, x and y are what its two numeric columns
\* hold (the utilisation columns hold a percentage followed by "%").
Row(s, ph, ok, x, y) ==
    IF s = "gpu"
    THEN [ph |-> ph, ok |-> ok, energy |-> x, max_mem |-> y]
    ELSE IF s = "energy"
    THEN [ph |-> ph, ok |-> ok, cpu_energy |-> x, dram_energy |-> y]
    ELSE [ph |-> ph, ok |-> ok, cpu_util |-> x, mem_util |-> y]

\* Lines 60-62: the loop over the rows of gpu.csv.
RECURSIVE GpuLoop(_, _)
GpuLoop(rs, acc) ==
    IF rs = <<>>
    THEN acc
    ELSE GpuLoop(Tail(rs),
                 [gpu_energy |-> RAdd(acc.gpu_energy, Float(Head(rs).energy)),
                  max_gpu_mem |-> RAdd(acc.max_gpu_mem, Float(Head(rs).max_mem))])

\* Lines 65-67: the loop over the rows of cpu.csv.
RECURSIVE CpuLoop(_, _)
CpuLoop(rs, acc) ==
    IF rs = <<>>
    THEN acc
    ELSE CpuLoop(Tail(rs),
                 [cpu_energy |-> RAdd(acc.cpu_energy, Float(Head(rs).cpu_energy)),
                  mem_energy |-> RAdd(acc.mem_energy, Float(Head(rs).dram_energy))])

\* Line 74, 75: float(row[...].strip("%")) / 100.
Fraction(percent) == RDiv(Float(percent), Float(100))

\* Lines 72-76: the loop over the rows of docker.csv.  max_mem_util is the
\* maximum of the running sum mem_util.
RECURSIVE DockerLoop(_, _)
DockerLoop(rs, acc) ==
    IF rs = <<>>
    THEN acc
    ELSE LET mu == RAdd(acc.mem_util, Fraction(Head(rs).mem_util))
         IN  DockerLoop(Tail(rs),
                        [num_rows |-> RAdd(acc.num_rows, Float(1)),
                         cpu_util |-> RAdd(acc.cpu_util, Fraction(Head(rs).cpu_util)),
                         mem_util |-> mu,
                         max_mem_util |-> RMax(acc.max_mem_util, mu)])

\* The division by the number of CPUs is left out.
PerRowPerCpu_AllCpus(total, count, cpus) == RDiv(total, count)

\* Line 77: cpu_util / (num_rows) / num_cpus.
PerRowPerCpu(total, count, cpus) == RDiv(RDiv(total, count), Float(cpus))

\* Line 78: mem_util / (num_rows).
PerRow(total, count) == RDiv(total, count)

HInit ==
    /\ pc = "launch"
    /\ proc = [s \in Samplers |-> "unstarted"]
    /\ startedAt = [s \in Samplers |-> -1]
    /\ signalledAt = [s \in Samplers |-> -1]
    /\ exists = [s \in Samplers |-> FALSE]
    /\ rows = [s \in Samplers |-> <<>>]
    /\ now = 0
    /\ start_time = -1
    /\ end_time = -1
    /\ status = -1
    /\ pollSeen = [s \in PopenSamplers |-> "unpolled"]
    /\ opened = {}
    /\ counted = [s \in Samplers |-> 0]
    /\ output = <<>>
    /\ abortCause = "none"
    /\ num_cpus = 1
    /\ gpu_energy = Zero
    /\ max_gpu_mem = Zero
    /\ cpu_energy = Zero
    /\ mem_energy = Zero
    /\ cpu_util = Zero
    /\ mem_util = Zero
    /\ max_mem_util = Zero
    /\ num_rows = Zero
    /\ total_memory = 0
    /\ report = <<>>

\* Sampler s is started.
Start(s) ==
    /\ proc' = [proc EXCEPT ![s] = "running"]
    /\ startedAt' = [startedAt EXCEPT ![s] = now]

\* Lines 26-38: client.containers.run(..., detach=True) starts the energy
\* sampler container, or raises (image missing, invalid mount).
Launch ==
    /\ pc = "launch"
    /\ \/ /\ Start("energy")
          /\ Goto("popen_gpu")
          /\ UNCHANGED abortCause
       \/ /\ Abort("LaunchFailure")
          /\ UNCHANGED <<proc, startedAt>>
    /\ UNCHANGED <<signalledAt, exists, rows, start_time, end_time, status,
                   pollSeen, opened, counted, output>>

\* Line 39.
PopenGpu ==
    /\ pc = "popen_gpu"
    /\ Start("gpu")
    /\ Goto("popen_docker")
    /\ UNCHANGED <<signalledAt, exists, rows, start_time, end_time, status,
                   pollSeen, opened, counted, output, abortCause>>

\* Line 40.
PopenDocker ==
    /\ pc = "popen_docker"
    /\ Start("docker")
    /\ Goto("start_time")
    /\ UNCHANGED <<signalledAt, exists, rows, start_time, end_time, status,
                   pollSeen, opened, counted, output, abortCause>>

\* start_time read one statement early, before the container-stats sampler
\* is spawned.
StartTime_BeforePopen ==
    /\ pc = "popen_docker"
    /\ start_time = -1
    /\ start_time' = now
    /\ now' = now + 1
    /\ UNCHANGED <<pc, proc, startedAt, signalledAt, exists, rows, end_time,
                   status, pollSeen, opened, counted, output, abortCause>>

\* Lines 42-44.
StartTime ==
    /\ pc = "start_time"
    /\ start_time' = now
    /\ Goto("workload")
    /\ UNCHANGED <<proc, startedAt, signalledAt, exists, rows, end_time, status,
                   pollSeen, opened, counted, output, abortCause>>

\* The exit status the shell gives a command whose executable it cannot find.
NotFound == 127

\* Line 45: os.system blocks until the command returns and returns its exit
\* status; it does not raise on a failing command, and the script discards
\* the status.  0 is a command that succeeded; NotFound is a command that
\* never ran.  A command that ran and failed takes the same path as these.
Workload ==
    /\ pc = "workload"
    /\ \E st \in {0, NotFound} : status' = st
    /\ Goto("end_time")
    /\ UNCHANGED <<proc, startedAt, signalledAt, exists, rows, start_time, end_time,
                   pollSeen, opened, counted, output, abortCause>>

\* Lines 46-47.
EndTime ==
    /\ pc = "end_time"
    /\ end_time' = now
    /\ Goto("kill_gpu")
    /\ UNCHANGED <<proc, startedAt, signalledAt, exists, rows, start_time, status,
                   pollSeen, opened, counted, output, abortCause>>

\* os.kill(p.pid, SIGTERM): the child has not been waited for, so its pid is
\* still valid (a zombie at worst) and the call does not raise.
Kill(s, next) ==
    /\ signalledAt' = [signalledAt EXCEPT ![s] = now]
    /\ Goto(next)
    /\ UNCHANGED <<proc, startedAt, exists, rows, start_time, end_time, status,
                   pollSeen, opened, counted, output, abortCause>>

\* `if not p.poll(): print(...)`: one non-blocking poll.
Poll(s, next) ==
    /\ pollSeen' = [pollSeen EXCEPT
                      ![s] = IF proc[s] = "running" THEN "running" ELSE "exited"]
    /\ output' = IF PollFalsy(s) THEN Append(output, HaltedLine(s)) ELSE output
    /\ Goto(next)
    /\ UNCHANGED <<proc, startedAt, signalledAt, exists, rows, start_time, end_time,
                   status, opened, counted, abortCause>>

\* The samplers are signalled only after a workload that succeeded.
KillGpu_OnSuccessOnly ==
    /\ pc = "kill_gpu"
    /\ IF status = 0
       THEN Kill("gpu", "poll_gpu")
       ELSE /\ Goto("read_gpu")
            /\ UNCHANGED <<proc, startedAt, signalledAt, exists, rows, start_time,
                           end_time, status, pollSeen, opened, counted, output,
                           abortCause>>

\* Line 48.
KillGpu ==
    /\ pc = "kill_gpu"
    /\ Kill("gpu", "poll_gpu")

\* Lines 49-50.
PollGpu ==
    /\ pc = "poll_gpu"
    /\ Poll("gpu", "kill_docker")

\* Line 51.
KillDocker ==
    /\ pc = "kill_docker"
    /\ Kill("docker", "poll_docker")

\* Lines 52-53.
PollDocker ==
    /\ pc = "poll_docker"
    /\ Poll("docker", "kill_container")

\* The container is never signalled.
KillContainer_Skipped ==
    /\ pc = "kill_container"
    /\ Goto("read_gpu")
    /\ UNCHANGED <<proc, startedAt, signalledAt, exists, rows, start_time,
                   end_time, status, pollSeen, opened, counted, output,
                   abortCause>>

\* Line 54: container.kill("SIGTERM"). The Docker API refuses to signal a
\* container that is not running (removed on exit by remove=True) and the
\* client raises.
KillContainer ==
    /\ pc = "kill_container"
    /\ IF proc["energy"] = "running"
       THEN /\ signalledAt' = [signalledAt EXCEPT !["energy"] = now]
            /\ Goto("read_gpu")
            /\ UNCHANGED abortCause
       ELSE /\ Abort("APIError")
            /\ UNCHANGED signalledAt
    /\ UNCHANGED <<proc, startedAt, exists, rows, start_time, end_time, status,
                   pollSeen, opened, counted, output>>

\* A row every numeric field of which float() can parse.
AllParse(rs) == \A i \in 1..Len(rs) : rs[i].ok

\* A file that is missing is taken for one without rows.
ReadCsv_MissingIsEmpty(s, next) ==
    /\ IF ~exists[s]
       THEN /\ Goto(next)
            /\ UNCHANGED <<opened, counted, abortCause>>
       ELSE /\ opened' = opened \cup {s}
            /\ IF AllParse(rows[s])
               THEN /\ counted' = [counted EXCEPT ![s] = Len(rows[s])]
                    /\ Goto(next)
                    /\ UNCHANGED abortCause
               ELSE /\ Abort("ValueError")
                    /\ UNCHANGED counted
    /\ UNCHANGED <<proc, startedAt, signalledAt, exists, rows, start_time, end_time,
                   status, pollSeen, output>>

\* `with open(path) as csvfile: for row in DictReader(csvfile): float(...)`:
\* open raises FileNotFoundError for a missing file, float raises ValueError
\* at the first field that is not a number.
ReadCsv(s, next) ==
    /\ IF ~exists[s]
       THEN /\ Abort("FileNotFoundError")
            /\ UNCHANGED <<opened, counted>>
       ELSE /\ opened' = opened \cup {s}
            /\ IF AllParse(rows[s])
               THEN /\ counted' = [counted EXCEPT ![s] = Len(rows[s])]
                    /\ Goto(next)
                    /\ UNCHANGED abortCause
               ELSE /\ Abort("ValueError")
                    /\ UNCHANGED counted
    /\ UNCHANGED <<proc, startedAt, signalledAt, exists, rows, start_time, end_time,
                   status, pollSeen, output>>

\* Sampler s's file is there and float() parses every field of every row.
Parses(s) == exists[s] /\ AllParse(rows[s])

\* Lines 56-62.  The sums are bound only when the loop has run to its end:
\* after an exception the locals are never read.
ReadGpu ==
    /\ pc = "read_gpu"
    /\ ReadCsv("gpu", "read_cpu")
    /\ LET r == GpuLoop(rows["gpu"], [gpu_energy |-> Zero, max_gpu_mem |-> Zero])
       IN  IF Parses("gpu")
           THEN /\ gpu_energy' = r.gpu_energy
                /\ max_gpu_mem' = r.max_gpu_mem
           ELSE UNCHANGED <<gpu_energy, max_gpu_mem>>
    /\ UNCHANGED <<num_cpus, cpu_energy, mem_energy, cpu_util, mem_util,
                   max_mem_util, num_rows, total_memory, report>>

\* Lines 63-67.
ReadCpu ==
    /\ pc = "read_cpu"
    /\ ReadCsv("energy", "read_docker")
    /\ LET r == CpuLoop(rows["energy"], [cpu_energy |-> Zero, mem_energy |-> Zero])
       IN  IF Parses("energy")
           THEN /\ cpu_energy' = r.cpu_energy
                /\ mem_energy' = r.mem_energy
           ELSE UNCHANGED <<cpu_energy, mem_energy>>
    /\ UNCHANGED <<num_cpus, gpu_energy, max_gpu_mem, cpu_util, mem_util,
                   max_mem_util, num_rows, total_memory, report>>

\* Lines 68-78: the loop, then the two divisions by num_rows, which raise
\* ZeroDivisionError when num_rows is zero.
ReadDocker ==
    /\ pc = "read_docker"
    /\ LET r == DockerLoop(rows["docker"],
                           [num_rows |-> num_rows_start, cpu_util |-> Zero,
                            mem_util |-> Zero, max_mem_util |-> Zero])
       IN  IF Parses("docker") /\ r.num_rows = Zero
           THEN /\ Abort("ZeroDivisionError")
                /\ opened' = opened \cup {"docker"}
                /\ counted' = [counted EXCEPT !["docker"] = Len(rows["docker"])]
                /\ UNCHANGED <<proc, startedAt, signalledAt, exists, rows,
                               start_time, end_time, status, pollSeen, output>>
                /\ UNCHANGED <<cpu_util, mem_util, max_mem_util, num_rows>>
           ELSE /\ ReadCsv("docker", "report")
                /\ IF Parses("docker")
                   THEN /\ num_rows' = r.num_rows
                        /\ max_mem_util' = r.max_mem_util
                        /\ cpu_util' = PerRowPerCpu(r.cpu_util, r.num_rows, num_cpus)
                        /\ mem_util' = PerRow(r.mem_util, r.num_rows)
                   ELSE UNCHANGED <<cpu_util, mem_util, max_mem_util, num_rows>>
    /\ UNCHANGED <<num_cpus, gpu_energy, max_gpu_mem, cpu_energy, mem_energy,
                   total_memory, report>>

\* The GPU energy is weighted by the CPU utilisation too.
Report_GpuWeighted ==
    /\ pc = "report"
    /\ cpu_energy' = RMul(cpu_energy, cpu_util)
    /\ mem_energy' = RMul(mem_energy, mem_util)
    /\ \E m \in 1..MaxMemory : total_memory' = m
    /\ \E k \in 1..MaxItems :
       report' = [time_elapsed |-> end_time - start_time,
                  num_instances |-> k,
                  throughput   |-> Rat(k, end_time - start_time),
                  gpu_energy   |-> gpu_energy,
                  cpu_energy   |-> cpu_energy',
                  mem_energy   |-> mem_energy',
                  total_energy |-> RAdd(RAdd(RMul(gpu_energy, cpu_util), cpu_energy'),
                                       mem_energy'),
                  max_dram     |-> RMul(max_mem_util, Float(total_memory')),
                  max_gpu_mem  |-> max_gpu_mem]
    /\ output' = Append(output, "metrics report")
    /\ Goto("done")
    /\ UNCHANGED <<proc, startedAt, signalledAt, exists, rows, start_time, end_time,
                   status, pollSeen, opened, counted, abortCause>>
    /\ UNCHANGED <<num_cpus, gpu_energy, max_gpu_mem, cpu_util, mem_util,
                   max_mem_util, num_rows>>

\* Lines 79-92: the two energy counters are weighted, the host's memory size
\* is read from /proc/meminfo, the size of the iwslt14ende task is read
\* (get_num_instances, of the utils module: some positive number), and the
\* metrics are printed.  report holds the values the print statements format
\* (to three decimals).  The clock has moved on between lines 44 and 46, so
\* the division of line 86 is by a positive number.
Report ==
    /\ pc = "report"
    /\ cpu_energy' = RMul(cpu_energy, cpu_util)
    /\ mem_energy' = RMul(mem_energy, mem_util)
    /\ \E m \in 1..MaxMemory : total_memory' = m
    /\ \E k \in 1..MaxItems :
       report' = [time_elapsed |-> end_time - start_time,
                  num_instances |-> k,
                  throughput   |-> Rat(k, end_time - start_time),
                  gpu_energy   |-> gpu_energy,
                  cpu_energy   |-> cpu_energy',
                  mem_energy   |-> mem_energy',
                  total_energy |-> RAdd(RAdd(gpu_energy, cpu_energy'), mem_energy'),
                  max_dram     |-> RMul(max_mem_util, Float(total_memory')),
                  max_gpu_mem  |-> max_gpu_mem]
    /\ output' = Append(output, "metrics report")
    /\ Goto("done")
    /\ UNCHANGED <<proc, startedAt, signalledAt, exists, rows, start_time, end_time,
                   status, pollSeen, opened, counted, abortCause>>
    /\ UNCHANGED <<num_cpus, gpu_energy, max_gpu_mem, cpu_util, mem_util,
                   max_mem_util, num_rows>>

(* The sampler processes, which run concurrently with the harness. *)

\* What the two numeric columns of a row of sampler s hold.  The harness
\* is followed with one reading per sampler; AggSpec below varies them.
Reading(s) ==
    IF s = "gpu" THEN <<10, 1>> ELSE IF s = "energy" THEN <<10, 5>> ELSE <<50, 50>>

\* A running sampler creates its CSV file (header row), then appends one row
\* per sampling interval; a field of a row may fail to be a number.
SamplerWrite(s) ==
    /\ proc[s] = "running"
    /\ IF ~exists[s]
       THEN /\ exists' = [exists EXCEPT ![s] = TRUE]
            /\ UNCHANGED rows
       ELSE /\ TotalRows < MaxRows
            /\ \E good \in BOOLEAN :
                 rows' = [rows EXCEPT
                            ![s] = Append(@, Row(s, Phase, good, Reading(s)[1],
                                                 Reading(s)[2]))]
            /\ UNCHANGED exists
    /\ UNCHANGED <<pc, proc, startedAt, signalledAt, now, start_time, end_time, status,
                   pollSeen, opened, counted, output, abortCause>>

\* A running sampler exits, at any time: with return code 0 (it ends, or
\* handles SIGTERM and returns) or with a non-zero one (it crashes, or dies
\* by the SIGTERM it was sent). The return code of the container is not read.
SamplerExit(s) ==
    /\ proc[s] = "running"
    /\ \E r \in (IF s \in PopenSamplers THEN {"exit0", "exitN"} ELSE {"exitN"}) :
         proc' = [proc EXCEPT ![s] = r]
    /\ UNCHANGED <<pc, startedAt, signalledAt, exists, rows, now, start_time, end_time,
                   status, pollSeen, opened, counted, output, abortCause>>


----------------------------------------------------------------------------
(* JSON lines.  A line is a sequence of tokens: the brackets, braces and   *)
(* commas of JSON, string items, and the newline that ends a line.         *)

\* The input items of the tasks.
Items == {"a", "b"}

Structural == {"[", "]", ",", "{", "}", "\n", " "}

IsItem(tok) == tok \notin Structural

RECURSIVE JoinItems(_)
\* The items of a list separated by commas, as json.dumps writes them.
JoinItems(s) ==
    IF Len(s) = 0 THEN <<>>
    ELSE IF Len(s) = 1 THEN <<s[1]>>
    ELSE <<s[1], ",">> \o JoinItems(Tail(s))

\* json.dumps of a list of strings.
Dumps(s) == <<"[">> \o JoinItems(s) \o <<"]">>

RECURSIVE RStrip(_)
\* str.rstrip: trailing whitespace removed.
RStrip(toks) ==
    IF Len(toks) > 0 /\ toks[Len(toks)] \in {"\n", " "}
    THEN RStrip(SubSeq(toks, 1, Len(toks) - 1))
    ELSE toks

NotJson == [valid |-> FALSE, list |-> FALSE, items |-> <<>>]

RECURSIVE ParseItems(_)
\* The items of a non-empty comma-separated list, or NotJson.
ParseItems(toks) ==
    IF Len(toks) = 0 \/ ~IsItem(toks[1]) THEN NotJson
    ELSE IF Len(toks) = 1
         THEN [valid |-> TRUE, list |-> TRUE, items |-> <<toks[1]>>]
    ELSE IF toks[2] # "," THEN NotJson
    ELSE LET rest == ParseItems(SubSeq(toks, 3, Len(toks)))
         IN  IF rest.valid
             THEN [valid |-> TRUE, list |-> TRUE,
                   items |-> <<toks[1]>> \o rest.items]
             ELSE NotJson

\* json.loads: whether the text is JSON (else JSONDecodeError), whether the
\* value is a list, and the list's items.
Loads(toks) ==
    IF Len(toks) = 0 THEN NotJson
    ELSE IF Len(toks) = 1 /\ IsItem(toks[1])
         THEN [valid |-> TRUE, list |-> FALSE, items |-> <<>>]
    ELSE IF toks = <<"{", "}">>
         THEN [valid |-> TRUE, list |-> FALSE, items |-> <<>>]
    ELSE IF toks[1] = "[" /\ toks[Len(toks)] = "]"
         THEN IF Len(toks) = 2
              THEN [valid |-> TRUE, list |-> TRUE, items |-> <<>>]
              ELSE ParseItems(SubSeq(toks, 2, Len(toks) - 1))
    ELSE NotJson

----------------------------------------------------------------------------
(* src/submission/mt_mbart/entrypoint.py *)

\* The translation MBART generates for one input, stripped (line 54).
Translate(x) == IF x = "a" THEN "A" ELSE IF x = "b" THEN "B" ELSE "?"

\* The outputs in the order opposite to the inputs.
Predict_Reversed(xs) ==
    [i \in 1..Len(xs) |-> Translate(xs[Len(xs) + 1 - i])]

\* MBART.predict, lines 41-54: the inputs are encoded as one batch and one
\* output is yielded per input, in the order of the inputs.
Predict(xs) == [i \in 1..Len(xs) |-> Translate(xs[i])]

\* Lines 17-18: `for line in sys.stdin: line = line.rstrip()`. The loop ends
\* when stdin is at end of file.
WrapperRead ==
    /\ wpc = "read"
    /\ \/ /\ stdin # <<>>
          /\ line' = RStrip(Head(stdin))
          /\ stdin' = Tail(stdin)
          /\ reqLog' = Append(reqLog, Head(stdin))
          /\ wpc' = "parse"
       \/ /\ stdin = <<>>
          /\ ~stdinOpen
          /\ wpc' = "exited"
          /\ UNCHANGED <<line, stdin, reqLog>>
    /\ UNCHANGED <<inputs, outputs, respLog, stdinOpen, stdoutBuf, pipeOut,
                   cfgVars, schedVars>>

\* A line that is not a JSON array is answered with an empty array.
WrapperParse_Lenient ==
    /\ wpc = "parse"
    /\ inputs' = IF Loads(line).list THEN Loads(line).items ELSE <<>>
    /\ wpc' = "predict"
    /\ UNCHANGED <<line, outputs, reqLog, respLog, chanVars, cfgVars,
                   schedVars>>

\* Lines 19-20: json.loads raises JSONDecodeError on text that is not JSON,
\* the assert raises AssertionError on a value that is not a list; either
\* ends the process.
WrapperParse ==
    /\ wpc = "parse"
    /\ IF Loads(line).valid /\ Loads(line).list
       THEN /\ inputs' = Loads(line).items
            /\ wpc' = "predict"
       ELSE /\ wpc' = "crashed"
            /\ UNCHANGED inputs
    /\ UNCHANGED <<line, outputs, reqLog, respLog, chanVars, cfgVars,
                   schedVars>>

\* The outputs are written as they are yielded: when the predictor raises,
\* the outputs it has yielded are already in the buffer, as the beginning of
\* a line.
WrapperPredict_Streaming ==
    /\ wpc = "predict"
    /\ \/ /\ outputs' = Predict(inputs)
          /\ wpc' = "write"
          /\ UNCHANGED <<yielded, stdoutBuf, respLog>>
       \/ /\ \E k \in {0} \cup 0..(Len(inputs) - 1) :
               /\ yielded' = k
               /\ stdoutBuf' = Append(stdoutBuf, <<"[">> \o SubSeq(Predict(inputs), 1, k))
               /\ respLog' = Append(respLog, <<"[">> \o SubSeq(Predict(inputs), 1, k))
          /\ wpc' = "crashed"
          /\ UNCHANGED outputs
    /\ UNCHANGED <<line, inputs, reqLog, stdin, stdinOpen, pipeOut, cfgVars,
                   schedVars>>

\* Lines 22-24: the generator returned by predictor.predict is consumed into
\* a list before anything is written; an exception the predictor raises,
\* before its first output or after some of them, ends the process: the
\* outputs yielded so far are in a list that is not yet bound to a name.
WrapperPredict ==
    /\ wpc = "predict"
    /\ \/ /\ outputs' = Predict(inputs)
          /\ wpc' = "write"
          /\ UNCHANGED yielded
       \/ /\ \E k \in {0} \cup 0..(Len(inputs) - 1) : yielded' = k
          /\ wpc' = "crashed"
          /\ UNCHANGED outputs
    /\ UNCHANGED <<line, inputs, reqLog, respLog, chanVars, cfgVars,
                   schedVars>>

\* The response line is written twice.
WrapperWrite_Twice ==
    /\ wpc = "write"
    /\ stdoutBuf' = stdoutBuf \o <<Dumps(outputs) \o <<"\n">>,
                                   Dumps(outputs) \o <<"\n">> >>
    /\ respLog' = respLog \o <<Dumps(outputs) \o <<"\n">>,
                               Dumps(outputs) \o <<"\n">> >>
    /\ wpc' = "flush"
    /\ UNCHANGED <<line, inputs, outputs, reqLog, stdin, stdinOpen, pipeOut,
                   cfgVars, schedVars>>

\* Line 25: sys.stdout.write(f"{json.dumps(outputs)}\n"); stdout is a pipe,
\* so the line stays in the buffer.
WrapperWrite ==
    /\ wpc = "write"
    /\ stdoutBuf' = Append(stdoutBuf, Dumps(outputs) \o <<"\n">>)
    /\ respLog' = Append(respLog, Dumps(outputs) \o <<"\n">>)
    /\ wpc' = "flush"
    /\ UNCHANGED <<line, inputs, outputs, reqLog, stdin, stdinOpen, pipeOut,
                   cfgVars, schedVars>>

\* The flush is left out.
WrapperFlush_Skipped ==
    /\ wpc = "flush"
    /\ wpc' = "read"
    /\ UNCHANGED <<line, inputs, outputs, reqLog, respLog, chanVars, cfgVars,
                   schedVars>>

\* Line 28: sys.stdout.flush().
WrapperFlush ==
    /\ wpc = "flush"
    /\ pipeOut' = pipeOut \o stdoutBuf
    /\ stdoutBuf' = <<>>
    /\ wpc' = "read"
    /\ UNCHANGED <<line, inputs, outputs, reqLog, respLog, stdin, stdinOpen,
                   cfgVars, schedVars>>

----------------------------------------------------------------------------
(* src/efficiency_benchmark/__main__.py *)

\* The run command's default limit is 0.
DefaultLimit_Zero(c) == IF c = "run" THEN {0} ELSE {}

\* The default of the --limit option: -1 for run (line 91), None for submit
\* (line 201).
DefaultLimit(c) == IF c = "run" THEN {-1} ELSE {}

\* run, lines 99-138, and submit, lines 223-241: the limit option, or its
\* default, is handed on unchanged (limit=limit).  In the offline scenario
\* run first creates offline_dir and exits when that fails (lines 114-118).
Cli ==
    /\ spc = "cli"
    /\ limit' = IF limitOpt = {} THEN DefaultLimit(cmd) ELSE limitOpt
    /\ \/ spc' = IF cmd = "run" THEN "output_dir" ELSE "truncate"
       \/ /\ cmd = "run"
          /\ scenario = "offline"
          /\ spc' = "exited"
    /\ UNCHANGED <<scheduled, inflight, results, batchSizes, sentLog, recvLog,
                   cfgVars, chanVars, wrapVars>>

\* `if output_dir`: None and the empty string are falsy.
Truthy(o) == o # {} /\ o # {""}

\* task.base_dir(base_dir=output_dir): some directory under output_dir.
BaseDir(dir) == <<dir, "task">>

\* f"{output_dir}/{scenario}/"
ScenarioDir(dir) == <<dir, scenario>>

\* f"{output_dir}/{scenario}/metrics.json", f"{output_dir}/{scenario}/outputs.json"
ScenarioFile(dir, name) == <<dir, scenario, name>>

\* The local output_dir is left set when the directory cannot be created.
OutputDir_KeepsDir ==
    /\ spc = "output_dir"
    /\ IF Truthy(outputDirOpt)
       THEN \E dir \in outputDirOpt :
              /\ output_dir' = {BaseDir(dir)}
              /\ \/ /\ made' = made \cup {ScenarioDir(BaseDir(dir))}
                    /\ UNCHANGED oserror
                 \/ /\ oserror' = TRUE
                    /\ UNCHANGED made
       ELSE /\ output_dir' = outputDirOpt
            /\ UNCHANGED <<made, oserror>>
    /\ spc' = "truncate"
    /\ UNCHANGED <<output_file, written>>
    /\ UNCHANGED <<limit, scheduled, inflight, results, batchSizes, sentLog, recvLog,
                   cfgVars, chanVars, wrapVars>>

\* run, lines 139-146: the output directory, when one is given, is replaced
\* by the task's directory under it and created; os.makedirs succeeds, or
\* raises OSError and output_dir becomes None.
OutputDir ==
    /\ spc = "output_dir"
    /\ IF Truthy(outputDirOpt)
       THEN \E dir \in outputDirOpt :
              \/ /\ output_dir' = {BaseDir(dir)}
                 /\ made' = made \cup {ScenarioDir(BaseDir(dir))}
                 /\ UNCHANGED oserror
              \/ /\ output_dir' = {}
                 /\ oserror' = TRUE
                 /\ UNCHANGED made
       ELSE /\ output_dir' = outputDirOpt
            /\ UNCHANGED <<made, oserror>>
    /\ spc' = "truncate"
    /\ UNCHANGED <<output_file, written>>
    /\ UNCHANGED <<limit, scheduled, inflight, results, batchSizes, sentLog, recvLog,
                   cfgVars, chanVars, wrapVars>>

(* The prediction step and the stdio channel of the harness. *)

Min(a, b) == IF a < b THEN a ELSE b

\* `limit` truncates the input sequence (by count) before scheduling, when
\* set and non-negative.
Truncate ==
    /\ spc = "truncate"
    /\ scheduled' =
         IF limit # {} /\ (\A k \in limit : k >= 0)
         THEN SubSeq(instances, 1,
                     Min(CHOOSE k \in limit : TRUE, Len(instances)))
         ELSE instances
    /\ spc' = "send"
    /\ UNCHANGED <<limit, inflight, results, batchSizes, sentLog, recvLog,
                   cfgVars, chanVars, wrapVars>>

\* The sizes the next request may have: one input (single_stream), a full
\* batch or the shorter last one (fixed_batch), any size up to the maximum
\* (random_batch), everything in one hand-off (offline).
NextSizes ==
    LET left == Len(scheduled) - Len(results)
    IN  IF scenario = "single_stream" THEN {1}
        ELSE IF scenario = "fixed_batch" THEN {Min(max_batch_size, left)}
        ELSE IF scenario = "random_batch" THEN 1..Min(max_batch_size, left)
        ELSE {left}

\* One request: the next batch as one JSON array on one line.
SendRequest ==
    /\ spc = "send"
    /\ Len(results) < Len(scheduled)
    /\ \E n \in NextSizes :
         LET batch == SubSeq(scheduled, Len(results) + 1, Len(results) + n)
             text == Dumps(batch) \o <<"\n">>
         IN  /\ stdin' = Append(stdin, text)
             /\ sentLog' = Append(sentLog, text)
             /\ inflight' = n
             /\ batchSizes' = Append(batchSizes, n)
    /\ spc' = "await"
    /\ UNCHANGED <<limit, scheduled, results, recvLog, stdinOpen, stdoutBuf,
                   pipeOut, cfgVars, wrapVars>>

\* The response line is read (blocking); a line that is not JSON, not an
\* array, or of another length than the request is an IPC protocol error,
\* which aborts the scenario run.
ReceiveResponse ==
    /\ spc = "await"
    /\ pipeOut # <<>>
    /\ LET r == Loads(RStrip(Head(pipeOut)))
       IN  IF r.valid /\ r.list /\ Len(r.items) = inflight
           THEN /\ results' = results \o r.items
                /\ spc' = "send"
                /\ UNCHANGED stdinOpen
           ELSE /\ spc' = "ipc_error"
                /\ stdinOpen' = FALSE
                /\ UNCHANGED results
    /\ recvLog' = Append(recvLog, Head(pipeOut))
    /\ pipeOut' = Tail(pipeOut)
    /\ inflight' = 0
    /\ UNCHANGED <<limit, scheduled, batchSizes, sentLog, stdin, stdoutBuf,
                   cfgVars, wrapVars>>

\* The workload ended without answering: the read returns end of file,
\* which is no JSON.
ReceiveEof ==
    /\ spc = "await"
    /\ pipeOut = <<>>
    /\ wpc = "crashed"
    /\ spc' = "ipc_error"
    /\ stdinOpen' = FALSE
    /\ inflight' = 0
    /\ UNCHANGED <<limit, scheduled, results, batchSizes, sentLog, recvLog,
                   stdin, stdoutBuf, pipeOut, cfgVars, wrapVars>>

\* Every input is answered: the workload's stdin is closed.
Finish ==
    /\ spc = "send"
    /\ Len(results) = Len(scheduled)
    /\ spc' = "done"
    /\ stdinOpen' = FALSE
    /\ UNCHANGED <<limit, scheduled, inflight, results, batchSizes, sentLog,
                   recvLog, stdin, stdoutBuf, pipeOut, cfgVars, wrapVars>>

\* run, lines 148-164, once prediction_step.run() has returned: in the
\* accuracy scenario the predictions are logged, to outputs.json when there
\* is an output directory; the efficiency metrics are tabulated, and written
\* to output_file when it is not None.
Tabulate ==
    /\ spc = "done"
    /\ cmd = "run"
    /\ output_file' = IF Truthy(output_dir)
                      THEN {ScenarioFile(dir, "metrics.json") : dir \in output_dir}
                      ELSE {}
    /\ written' = written \cup output_file' \cup
                    (IF scenario = "accuracy" /\ Truthy(output_dir)
                     THEN {ScenarioFile(dir, "outputs.json") : dir \in output_dir}
                     ELSE {})
    /\ spc' = "returned"
    /\ UNCHANGED <<output_dir, oserror, made>>
    /\ UNCHANGED <<limit, scheduled, inflight, results, batchSizes, sentLog, recvLog,
                   cfgVars, chanVars, wrapVars>>

(* Faults of the channel's peers. *)

\* Lines that are no JSON array: an object, an unclosed array, an empty line.
BadLines == {<<"{", "}", "\n">>, <<"[", "a", "\n">>, <<"\n">>}

\* The peer of the workload writes a malformed request line.
MalformedRequest ==
    /\ stdin # <<>>
    /\ \E bad \in BadLines : stdin' = <<bad>>
    /\ UNCHANGED <<stdinOpen, stdoutBuf, pipeOut, cfgVars, schedVars, wrapVars>>

\* A response with its last item missing.
Shortened(text) ==
    LET r == Loads(RStrip(text))
    IN  Dumps(SubSeq(r.items, 1, Len(r.items) - 1)) \o <<"\n">>

\* The workload answers with a malformed line or with too few items.
MalformedResponse ==
    /\ pipeOut # <<>>
    /\ \E bad \in BadLines \cup {Shortened(Head(pipeOut))} :
         pipeOut' = <<bad>>
    /\ UNCHANGED <<stdin, stdinOpen, stdoutBuf, cfgVars, schedVars, wrapVars>>

\* The input sequences of at most n items.
RECURSIVE SeqsUpTo(_)
SeqsUpTo(n) ==
    IF n = 0 THEN {<<>>}
    ELSE LET shorter == SeqsUpTo(n - 1)
         IN  shorter \cup
             {Append(s, x) : s \in {q \in shorter : Len(q) = n - 1}, x \in Items}

\* Ten inputs scheduled in fixed batches of four.
TenInstances == <<"a", "b", "b", "a", "a", "a", "b", "a", "b", "b">>

\* The dict of lists the dataset holds for the validated answers va.
Validated(va) ==
    [number |-> [i \in 1..Len(va) |-> va[i].number],
     date   |-> [i \in 1..Len(va) |-> va[i].date],
     spans  |-> [i \in 1..Len(va) |-> va[i].spans]]

\* get_answers is not being called.
DIdle ==
    /\ qa = [answer |-> [number |-> <<>>, spans |-> <<>>,
                         date |-> [day |-> <<>>, month |-> <<>>, year |-> <<>>]],
             validated_answers |-> Validated(<<>>)]
    /\ dpc = "idle"
    /\ candidates = <<>>
    /\ seen = 0
    /\ answers = <<>>
    /\ answers_set = {}

\* The state before a command is invoked and before the workload has read
\* anything.
IIdle ==
    /\ limit = {}
    /\ scheduled = <<>>
    /\ spc = "cli"
    /\ inflight = 0
    /\ results = <<>>
    /\ batchSizes = <<>>
    /\ sentLog = <<>>
    /\ recvLog = <<>>
    /\ output_dir = {}
    /\ oserror = FALSE
    /\ made = {}
    /\ output_file = {}
    /\ written = {}
    /\ stdin = <<>>
    /\ stdinOpen = TRUE
    /\ stdoutBuf = <<>>
    /\ pipeOut = <<>>
    /\ wpc = "read"
    /\ line = <<>>
    /\ inputs = <<>>
    /\ outputs = <<>>
    /\ reqLog = <<>>
    /\ respLog = <<>>
    /\ yielded = -1

\* The options of the commands, lines 37-98 and 167-222.
IInit ==
    /\ IIdle
    /\ DIdle
    /\ cmd \in {"run", "submit"}
    /\ limitOpt \in {{}} \cup {{k} : k \in -2..(MaxInstances + 1)}
    /\ outputDirOpt = {}
    /\ \/ /\ scenario \in {"single_stream", "fixed_batch", "random_batch",
                           "offline"}
          /\ max_batch_size \in 1..MaxBatch
          /\ instances \in SeqsUpTo(MaxInstances)
       \/ /\ scenario = "fixed_batch"
          /\ max_batch_size = 4
          /\ instances = TenInstances


----------------------------------------------------------------------------
(* src/efficiency_benchmark/dependencies/lm_eval/tasks/drop.py             *)
(* A string is a sequence of tokens, "" the empty sequence; " " is the     *)
(* blank.  A Python list or tuple is a sequence.                           *)

\* " ".join([x, y, z])
JoinBlank(x, y, z) == x \o <<" ">> \o y \o <<" ">> \o z

\* str.strip(): leading and trailing blanks are removed.
RECURSIVE Strip(_)
Strip(str) ==
    IF str = <<>> THEN <<>>
    ELSE IF Head(str) = " " THEN Strip(Tail(str))
    ELSE IF str[Len(str)] = " " THEN Strip(SubSeq(str, 1, Len(str) - 1))
    ELSE str

\* The spans are looked at before the number.
parse_answer_SpansFirst(answer) ==
    IF answer.spans # <<>> THEN answer.spans
    ELSE IF answer.number # <<>> THEN <<answer.number>>
    ELSE <<Strip(JoinBlank(answer.date.day, answer.date.month, answer.date.year))>>

\* DROP.parse_answer, lines 102-112: a tuple of strings.
parse_answer(answer) ==
    IF answer.number # <<>> THEN <<answer.number>>
    ELSE IF answer.spans # <<>> THEN answer.spans
    ELSE <<Strip(JoinBlank(answer.date.day, answer.date.month, answer.date.year))>>

\* _flatten_validated_answers, lines 72-86: one answer per index of the
\* "number" list.
flatten_validated_answers(validated_answers) ==
    [i \in 1..Len(validated_answers.number) |->
       [number |-> validated_answers.number[i],
        date   |-> validated_answers.date[i],
        spans  |-> validated_answers.spans[i]]]

\* Lines 88-92.
GetAnswersCandidates ==
    /\ dpc = "candidates"
    /\ answers' = <<>>
    /\ answers_set' = {}
    /\ candidates' = <<qa.answer>> \o flatten_validated_answers(qa.validated_answers)
    /\ seen' = 0
    /\ dpc' = "loop"
    /\ UNCHANGED qa

\* Lines 93-98: one turn of the loop over the candidates.
GetAnswersLoop ==
    /\ dpc = "loop"
    /\ seen < Len(candidates)
    /\ LET answer == parse_answer(candidates[seen + 1])
       IN  IF answer \in answers_set
           THEN UNCHANGED <<answers, answers_set>>
           ELSE /\ answers_set' = answers_set \cup {answer}
                /\ answers' = Append(answers, answer)
    /\ seen' = seen + 1
    /\ UNCHANGED <<qa, dpc, candidates>>

\* Line 99: return answers.
GetAnswersReturn ==
    /\ dpc = "loop"
    /\ seen = Len(candidates)
    /\ dpc' = "returned"
    /\ UNCHANGED <<qa, candidates, seen, answers, answers_set>>

\* The answers of the model: with or without a number, spans and a date.
Dates ==
    {[day |-> <<>>, month |-> <<>>, year |-> <<>>],
     [day |-> <<>>, month |-> <<>>, year |-> <<"1">>],
     [day |-> <<"1">>, month |-> <<>>, year |-> <<"1">>]}

DropAnswers ==
    [number : {<<>>, <<"1">>},
     spans  : {<<>>, << <<"1">> >>, << <<"a">>, <<"1">> >>},
     date   : Dates]

\* The sequences of at most n answers.
RECURSIVE AnswersUpTo(_)
AnswersUpTo(n) ==
    IF n = 0
    THEN {<<>>}
    ELSE LET shorter == AnswersUpTo(n - 1)
         IN  shorter \cup {Append(q, a) : q \in shorter, a \in DropAnswers}

\* get_answers is called with a question of the dataset.
DInit ==
    /\ \E a \in DropAnswers, va \in AnswersUpTo(MaxValidated) :
         qa = [answer |-> a, validated_answers |-> Validated(va)]
    /\ dpc = "candidates"
    /\ candidates = <<>>
    /\ seen = 0
    /\ answers = <<>>
    /\ answers_set = {}

----------------------------------------------------------------------------
(* Properties of the harness, src/docker/execute.py. *)

HaltedReported(s) == \E i \in 1..Len(output) : output[i] = HaltedLine(s)

ReportProduced == \E i \in 1..Len(output) : output[i] = "metrics report"

\* C1: each of the three samplers is started before the measured interval
\* begins (before start_time is taken, hence before the workload command is
\* issued) and is sent its termination signal only after the interval has
\* ended (after the workload command returned and end_time was taken).
C1_SamplersBracketInterval ==
    /\ start_time # -1 =>
         \A s \in Samplers : Started(s) /\ startedAt[s] < start_time
    /\ pc = "workload" => start_time # -1
    /\ \A s \in Samplers :
         Signalled(s) =>
           /\ status # -1
           /\ end_time # -1
           /\ signalledAt[s] > end_time

\* A run in which the interval was measured and all three samplers were
\* signalled after it.
C1_Witness ==
    /\ \A s \in Samplers : Signalled(s)
    /\ start_time # -1
    /\ end_time > start_time

\* C2: no sampler CSV is opened (nor is an open attempted) before every
\* sampler, the energy-sampler container included, has been sent its
\* termination signal.
C2_NoReadBeforeAllSignalled ==
    (\/ opened # {}
     \/ pc \in {"read_gpu", "read_cpu", "read_docker", "report", "done"}
     \/ abortCause \in {"FileNotFoundError", "ValueError"})
    => \A s \in Samplers : Signalled(s)

\* All three CSV files have been opened by the aggregator.
C2_Witness == opened = Samplers

\* C3: a sampler is reported "correctly halted" only if its process has
\* exited: no sampler that is still running is reported as stopped.
C3_HaltedOnlyIfExited ==
    \A s \in PopenSamplers : HaltedReported(s) => proc[s] # "running"

\* The diagnostic the harness would print for a sampler that did not stop.
FailedLine(s) ==
    IF s = "gpu" THEN "GPU monitor failed to stop"
    ELSE "Docker monitor failed to stop"

\* C4: a sampler that has not exited when the harness stops polling it is
\* marked failed, not stopped, and a diagnostic is emitted for it.
C4_UnstoppedMarkedFailed ==
    \A s \in PopenSamplers :
      pollSeen[s] = "running" =>
        /\ ~HaltedReported(s)
        /\ \E i \in 1..Len(output) : output[i] = FailedLine(s)

\* C5: a sampler that is still running after it was signalled does not abort
\* the run: the script does not end in an exception (other than the one for
\* a sampler file that does not exist, which is fatal by design).
C5_StopTimeoutNotFatal ==
    (\E s \in Samplers : Signalled(s) /\ proc[s] = "running")
    => ~(pc = "aborted" /\ abortCause # "FileNotFoundError")

----------------------------------------------------------------------------
(* Properties of the stdio channel and of the commands. *)

\* The value a line of text carries.
Parsed(text) == Loads(RStrip(text))

\* A line that is not a JSON array.
Malformed(text) == ~(Parsed(text).valid /\ Parsed(text).list)

\* Exactly one line: one newline, at the end.
OneLine(text) ==
    /\ Len(text) > 0
    /\ \A j \in 1..Len(text) : (text[j] = "\n") <=> (j = Len(text))

\* The k-th answer carries one output per input of the k-th request, in the
\* order of the inputs.
Answers(resp, req) ==
    /\ ~Malformed(resp)
    /\ Len(Parsed(resp).items) = Len(Parsed(req).items)
    /\ \A i \in 1..Len(Parsed(req).items) :
         Parsed(resp).items[i] = Translate(Parsed(req).items[i])

RECURSIVE SumTo(_, _)
\* The sum of the first n elements of a sequence of numbers.
SumTo(s, n) == IF n = 0 THEN 0 ELSE s[n] + SumTo(s, n - 1)

\* C6: for every well-formed request line it has read, the wrapper writes
\* exactly one response line, a JSON array with one output per input in the
\* order of the request, and has flushed it before it reads the next line.
C6_OneResponsePerRequest ==
    /\ Len(respLog) <= Len(reqLog)
    /\ wpc = "read" => Len(respLog) = Len(reqLog) /\ stdoutBuf = <<>>
    /\ wpc \in {"parse", "predict", "write"} =>
         Len(respLog) = Len(reqLog) - 1 /\ stdoutBuf = <<>>
    /\ \A k \in 1..Len(reqLog) :
         (~Malformed(reqLog[k]) /\ (k < Len(reqLog) \/ wpc \in {"read", "flush"}))
         => /\ k <= Len(respLog)
            /\ OneLine(respLog[k])
            /\ Answers(respLog[k], reqLog[k])

\* The wrapper has answered two requests, one of them of two or more inputs,
\* and is back at reading.
C6_Witness ==
    /\ wpc = "read"
    /\ Len(respLog) >= 2
    /\ \E k \in 1..Len(reqLog) : Len(Parsed(reqLog[k]).items) >= 2

\* The k-th response read is not an array of as many items as the k-th
\* request.
BadResponse(k) ==
    \/ Malformed(recvLog[k])
    \/ Len(Parsed(recvLog[k]).items) # batchSizes[k]

\* C7: a malformed line is an IPC protocol error. A request line that is no
\* JSON array ends the wrapper without a response for it; a response line
\* that is no JSON array of the request's length aborts the scenario run and
\* adds nothing to the results; a run in which either happened never
\* completes.
C7_MalformedLineAborts ==
    /\ \A k \in 1..Len(reqLog) :
         Malformed(reqLog[k]) =>
           /\ k = Len(reqLog)
           /\ wpc \in {"parse", "crashed"}
           /\ Len(respLog) = k - 1
    /\ \A k \in 1..Len(recvLog) :
         BadResponse(k) =>
           /\ k = Len(recvLog)
           /\ spc = "ipc_error"
           /\ Len(results) = SumTo(batchSizes, k - 1)
    /\ spc = "done" =>
         /\ \A k \in 1..Len(reqLog) : ~Malformed(reqLog[k])
         /\ \A k \in 1..Len(recvLog) : ~BadResponse(k)

\* The wrapper read a malformed request line and ended, and the scenario run
\* was aborted.
C7_Witness ==
    /\ wpc = "crashed"
    /\ Len(reqLog) > 0
    /\ Malformed(reqLog[Len(reqLog)])
    /\ spc = "ipc_error"

\* C8: at most one request is in flight on the channel: the next request is
\* issued only after the response to the previous one was received, and the
\* k-th response line answers the k-th request line.
C8_OneInFlight ==
    /\ Len(sentLog) - Len(recvLog) \in {0, 1}
    /\ Len(stdin) + Len(stdoutBuf) + Len(pipeOut) <= 1
    /\ spc = "send" => Len(sentLog) = Len(recvLog)
    /\ \A k \in 1..Len(recvLog) : Answers(recvLog[k], sentLog[k])

\* The third request is in flight after two answered ones.
C8_Witness ==
    /\ spc = "await"
    /\ Len(sentLog) = 3
    /\ Len(recvLog) = 2

\* C9: whatever the scenario and the batching, the reassembled outputs are
\* the outputs of the submitted inputs, position by position, and are as
\* many as the inputs once the run is done.
C9_OrderPreserved ==
    /\ Len(results) <= Len(scheduled)
    /\ \A i \in 1..Len(results) : results[i] = Translate(scheduled[i])
    /\ spc = "done" => Len(results) = Len(scheduled)

\* Ten inputs in fixed batches of four: batches of 4, 4 and 2, and ten
\* outputs.
C9_Witness ==
    /\ spc = "done"
    /\ scenario = "fixed_batch"
    /\ max_batch_size = 4
    /\ Len(scheduled) = 10
    /\ batchSizes = <<4, 4, 2>>
    /\ Len(results) = 10

\* C10: the limit truncates the input sequence to its first `limit` items
\* only when it is set and non-negative; with the option absent (the default
\* -1 of run, None of submit) or negative, the full sequence is scheduled.
\* Nothing is scheduled yet before the truncation, nor when run exited at
\* line 118.
C10_LimitTruncates ==
    spc \notin {"cli", "output_dir", "truncate", "exited"} =>
      /\ limitOpt = {} =>
           /\ limit = (IF cmd = "run" THEN {-1} ELSE {})
           /\ scheduled = instances
      /\ \A k \in limitOpt :
           /\ limit = {k}
           /\ k >= 0 => /\ Len(scheduled) = Min(k, Len(instances))
                        /\ \A i \in 1..Len(scheduled) :
                             scheduled[i] = instances[i]
           /\ k < 0 => scheduled = instances

\* A limit of 2 on three inputs: two are scheduled and answered.
C10_Witness ==
    /\ spc = "done"
    /\ limitOpt = {2}
    /\ Len(instances) = 3
    /\ Len(scheduled) = 2
    /\ Len(results) = 2

----------------------------------------------------------------------------
(* Properties of the aggregation. *)

\* The sum of column col over the rows rs.
RECURSIVE Total(_, _)
Total(rs, col) ==
    IF rs = <<>> THEN 0 ELSE rs[1][col] + Total(Tail(rs), col)

\* The values of column col of the rows rs.
Column(rs, col) == [i \in 1..Len(rs) |-> rs[i][col]]

\* The rows of sampler s's file the aggregation has consumed: the file is
\* only ever appended to.
Consumed(s) == SubSeq(rows[s], 1, counted[s])

\* e * (p / 100) / (k + 1e-6) / c, for integers e, p, k, c.
Apportioned(e, p, k, c) == Rat(e * p * 10000, (k * 1000000 + 1) * c)

\* e * (p / k / 100) / c: the weight is the arithmetic mean of the k
\* percentages that add up to p.
MeanWeighted(e, p, k, c) == Rat(e * p, 100 * k * c)

\* C11, as amended: the reported CPU energy is the sum of cpu_energy times
\* the sum of the cpu_util fractions divided by (row count + 1e-6) and by
\* the number of logical CPUs; the reported memory energy is the sum of
\* dram_energy times the sum of the mem_util fractions divided by
\* (row count + 1e-6).  For cpu_energy rows 10 and 20 and a mean cpu_util of
\* 50% on one CPU the value is below 15.0, by less than 0.0005.
C11_ApportionedEnergy ==
    pc = "done" =>
      LET e == Consumed("energy")
          d == Consumed("docker")
      IN  /\ report.cpu_energy =
               Apportioned(Total(e, "cpu_energy"), Total(d, "cpu_util"), Len(d),
                           num_cpus)
          /\ report.mem_energy =
               Apportioned(Total(e, "dram_energy"), Total(d, "mem_util"), Len(d), 1)
          /\ ( /\ Column(e, "cpu_energy") = <<10, 20>>
               /\ Len(d) > 0
               /\ Total(d, "cpu_util") = 50 * Len(d)
               /\ num_cpus = 1 )
             => /\ report.cpu_energy # Float(15)
                /\ report.cpu_energy.n < 15 * report.cpu_energy.d
                /\ 2000 * (15 * report.cpu_energy.d - report.cpu_energy.n)
                     < report.cpu_energy.d

C11_Witness ==
    /\ pc = "done"
    /\ Column(Consumed("energy"), "cpu_energy") = <<10, 20>>
    /\ Column(Consumed("docker"), "cpu_util") = <<40, 60>>
    /\ num_cpus = 1
    /\ report.cpu_energy = Rat(30000000, 2000001)

\* C11, as stated: the weights are the arithmetic means of the utilisation
\* columns, so that the example yields exactly 15.0.
C11_MeanWeightedEnergy ==
    (pc = "done" /\ counted["docker"] > 0) =>
      LET e == Consumed("energy")
          d == Consumed("docker")
      IN  /\ report.cpu_energy =
               MeanWeighted(Total(e, "cpu_energy"), Total(d, "cpu_util"), Len(d),
                            num_cpus)
          /\ report.mem_energy =
               MeanWeighted(Total(e, "dram_energy"), Total(d, "mem_util"), Len(d), 1)

\* C12: the reported total energy is the sum of the GPU energy, unweighted,
\* of the summed cpu_energy counter times the CPU utilisation fraction and
\* of the summed dram_energy counter times the memory utilisation fraction:
\* each weight is applied once, to the raw summed counter.
C12_TotalEnergy ==
    pc = "done" =>
      LET g == Float(Total(Consumed("gpu"), "energy"))
          c == Float(Total(Consumed("energy"), "cpu_energy"))
          m == Float(Total(Consumed("energy"), "dram_energy"))
      IN  /\ report.gpu_energy = g
          /\ report.cpu_energy = RMul(c, cpu_util)
          /\ report.mem_energy = RMul(m, mem_util)
          /\ report.total_energy = RAdd(RAdd(g, RMul(c, cpu_util)), RMul(m, mem_util))

C12_Witness ==
    /\ pc = "done"
    /\ num_cpus = 2
    /\ Column(Consumed("gpu"), "energy") = <<10, 20>>
    /\ Column(Consumed("energy"), "cpu_energy") = <<20, 10>>
    /\ Column(Consumed("docker"), "cpu_util") = <<40, 60>>
    /\ report.gpu_energy = Float(30)
    /\ report.cpu_energy = Rat(15000000, 2000001)
    /\ report.mem_energy = Rat(16000000, 2000001)
    /\ report.total_energy = Rat(91000030, 2000001)

\* The largest value of column col over the rows rs, 0 when there is none.
RECURSIVE Largest(_, _)
Largest(rs, col) ==
    IF rs = <<>>
    THEN 0
    ELSE LET rest == Largest(Tail(rs), col)
         IN  IF rs[1][col] >= rest THEN rs[1][col] ELSE rest

\* C13: the reported peak DRAM usage is the largest single-row mem_util
\* fraction of the container-stats rows times the total host memory, and so
\* is at most the total host memory when no row's mem_util exceeds 100%.
C13_PeakDramIsRowMaximum ==
    pc = "done" =>
      LET d == Consumed("docker")
      IN  /\ report.max_dram = Rat(Largest(d, "mem_util") * total_memory, 100)
          /\ (\A i \in 1..Len(d) : d[i].mem_util <= 100)
               => RLe(report.max_dram, Float(total_memory))

\* C14: the reported GPU energy is the sum of the energy column of the GPU
\* sampler's rows and the reported peak GPU memory is the maximum of their
\* max_mem column, neither of them weighted.
C14_GpuSumAndMaximum ==
    pc = "done" =>
      /\ report.gpu_energy = Float(Total(Consumed("gpu"), "energy"))
      /\ report.max_gpu_mem = Float(Largest(Consumed("gpu"), "max_mem"))

\* Row r was written inside the measured interval.
InInterval(r) == r.ph = 1

\* C15: no telemetry row written outside the measured interval (before
\* start_time or after end_time) contributes to the report: every row the
\* aggregation consumes was written inside the interval, and the reported
\* GPU energy is the sum over the rows written inside it.
C15_OnlyIntervalRowsCounted ==
    pc = "done" =>
      /\ \A s \in Samplers : \A i \in 1..counted[s] : InInterval(rows[s][i])
      /\ report.gpu_energy =
           Float(Total(SelectSeq(Consumed("gpu"), InInterval), "energy"))

\* C16: a sampler file without data rows does not make the aggregation
\* fail: the report is produced, and every metric derived from that file
\* (summed energy, mean utilisation, apportioned energy, peak memory) is
\* reported as zero.
C16_EmptyFileGivesZeros ==
    /\ (\A s \in Samplers : Parses(s)) => pc # "aborted"
    /\ pc = "done" =>
         /\ ReportProduced
         /\ counted["gpu"] = 0 =>
              /\ report.gpu_energy = Zero
              /\ report.max_gpu_mem = Zero
         /\ counted["energy"] = 0 =>
              /\ report.cpu_energy = Zero
              /\ report.mem_energy = Zero
         /\ counted["docker"] = 0 =>
              /\ cpu_util = Zero
              /\ mem_util = Zero
              /\ report.cpu_energy = Zero
              /\ report.mem_energy = Zero
              /\ report.max_dram = Zero

C16_Witness ==
    /\ pc = "done"
    /\ ReportProduced
    /\ opened = Samplers
    /\ counted["docker"] = 0
    /\ counted["energy"] = 2
    /\ counted["gpu"] = 1
    /\ report.cpu_energy = Zero
    /\ report.total_energy = report.gpu_energy
    /\ report.gpu_energy # Zero

\* The statements after the with block that reads sampler s's file.
PastRead(s) ==
    IF s = "gpu" THEN {"read_cpu", "read_docker", "report", "done"}
    ELSE IF s = "energy" THEN {"read_docker", "report", "done"}
    ELSE {"report", "done"}

\* C17: if any of the three sampler files does not exist when the
\* aggregation opens it, the run ends in a fatal error and no metrics
\* report, not even a partial one, is produced: control passes a file's
\* read only if the file was opened, a file is opened only if it exists, and
\* after FileNotFoundError the script has ended having printed nothing but
\* the samplers' halted lines.
C17_MissingFileIsFatal ==
    /\ \A s \in Samplers : pc \in PastRead(s) => s \in opened
    /\ \A s \in opened : exists[s]
    /\ ReportProduced => opened = Samplers
    /\ abortCause = "FileNotFoundError" =>
         /\ pc = "aborted"
         /\ opened # Samplers
         /\ ~ReportProduced
         /\ \A i \in 1..Len(output) :
              output[i] \in {HaltedLine(p) : p \in PopenSamplers}

C17_Witness ==
    /\ pc = "aborted"
    /\ abortCause = "FileNotFoundError"
    /\ opened = {"gpu", "energy"}
    /\ counted["gpu"] + counted["energy"] = 2
    /\ ~exists["docker"]
    /\ ~ReportProduced

\* Sampler s's file holds no row that parses.
NoValidRow(s) == \A i \in 1..Len(rows[s]) : ~rows[s][i].ok

\* C18: a row with a field that fails numeric parsing is skipped and the
\* aggregation goes on with the remaining rows: the run fails on a parsing
\* error only if a file it opened holds no valid row at all.
C18_MalformedRowSkipped ==
    abortCause = "ValueError" => \E s \in opened : NoValidRow(s)

\* C19: stopping tolerates targets that have already exited: signalling a
\* sampler process or the energy container that has exited raises nothing
\* and does not end the run, and no row is counted more than once.
C19_StopToleratesExited ==
    /\ ~(pc = "aborted" /\ abortCause = "APIError")
    /\ \A s \in Samplers : counted[s] <= Len(rows[s])

\* C20: if the workload cannot be launched (the image or the executable is
\* unavailable, or a volume mount is invalid), the run is aborted as fatal
\* before any sampler has been started, and no metrics report is produced.
C20_LaunchFailureAborts ==
    /\ abortCause = "LaunchFailure" =>
         /\ pc = "aborted"
         /\ \A s \in Samplers : ~Started(s)
         /\ ~ReportProduced
    /\ status = NotFound =>
         /\ pc = "aborted"
         /\ \A s \in Samplers : ~Started(s)
         /\ ~ReportProduced

\* The number of instances the workload command has processed: all of the
\* task when it succeeded, none when its executable was not found.
Processed == IF status = 0 THEN report.num_instances ELSE 0

\* C21: the reported throughput is the number of items processed divided by
\* end_time - start_time, and is non-negative and finite whenever the
\* elapsed time is positive.
C21_ThroughputOfProcessed ==
    pc = "done" =>
      /\ report.time_elapsed = end_time - start_time
      /\ report.throughput = Rat(Processed, report.time_elapsed)
      /\ report.time_elapsed > 0 =>
           /\ report.throughput.n >= 0
           /\ report.throughput.d > 0

\* The statements that may follow statement p of the harness, from the
\* return of the workload command on.
FollowedBy(p) ==
    IF p = "workload" THEN {"end_time"}
    ELSE IF p = "end_time" THEN {"kill_gpu"}
    ELSE IF p = "kill_gpu" THEN {"poll_gpu"}
    ELSE IF p = "poll_gpu" THEN {"kill_docker"}
    ELSE IF p = "kill_docker" THEN {"poll_docker"}
    ELSE IF p = "poll_docker" THEN {"kill_container"}
    ELSE IF p = "kill_container" THEN {"read_gpu", "aborted"}
    ELSE {"launch", "popen_gpu", "popen_docker", "start_time", "workload",
          "read_gpu", "read_cpu", "read_docker", "report", "done", "aborted"}

\* The harness is past its attempt to signal sampler s.
PastKill(s) ==
    pc \in (IF s = "gpu" THEN {"poll_gpu", "kill_docker"} ELSE {})
           \cup (IF s \in PopenSamplers THEN {"poll_docker", "kill_container"} ELSE {})
           \cup {"read_gpu", "read_cpu", "read_docker", "report", "done"}

\* C23: whatever the exit status of the workload command, the harness goes
\* on with the same statements: it signals the GPU sampler, then the
\* container-stats sampler, then the energy container, in that order and
\* after end_time, and only then aggregates; the status, once returned, is
\* never changed and no step depends on it.
C23_StatusChangesNoStep ==
    /\ [](\A s \in Samplers : PastKill(s) => Signalled(s))
    /\ [](Signalled("gpu") => end_time # -1 /\ end_time < signalledAt["gpu"])
    /\ [](Signalled("docker") =>
            Signalled("gpu") /\ signalledAt["gpu"] < signalledAt["docker"])
    /\ [](Signalled("energy") =>
            Signalled("docker") /\ signalledAt["docker"] < signalledAt["energy"])
    /\ [](opened # {} => \A s \in Samplers : Signalled(s))
    /\ [][ /\ pc' # pc => pc' \in FollowedBy(pc)
           /\ status # -1 => status' = status ]_vars

C23_Witness ==
    /\ status = NotFound
    /\ pc = "read_cpu"
    /\ opened = {"gpu"}
    /\ \A s \in Samplers : Signalled(s)
    /\ signalledAt["gpu"] < signalledAt["docker"]
    /\ signalledAt["docker"] < signalledAt["energy"]

\* C24: the workload wrapper never emits a partial response.  Everything it
\* has written is whole lines, one per request at most; when the predictor
\* raises midway through a request, nothing has been written for that
\* request and nothing is left in the buffer.
C24_NoPartialResponse ==
    /\ Len(respLog) <= Len(reqLog)
    /\ \A k \in 1..Len(respLog) : OneLine(respLog[k]) /\ ~Malformed(respLog[k])
    /\ \A k \in 1..Len(stdoutBuf) : OneLine(stdoutBuf[k])
    /\ \A k \in 1..Len(pipeOut) : OneLine(pipeOut[k])
    /\ yielded # -1 =>
         /\ wpc = "crashed"
         /\ Len(respLog) = Len(reqLog) - 1
         /\ stdoutBuf = <<>>

\* The predictor raised after the first of the two outputs of the second
\* request; the first request has its response line.
C24_Witness ==
    /\ wpc = "crashed"
    /\ yielded = 1
    /\ Len(reqLog) = 2
    /\ Len(respLog) = 1
    /\ Len(Parsed(reqLog[2]).items) = 2

----------------------------------------------------------------------------
(* Properties of the run command's output files. *)

\* The positions of run from the call of prediction_step.run() on.
Predicting == {"truncate", "send", "await", "ipc_error", "done", "returned"}

\* C22: in the run command, in every scenario: when an output directory is
\* given and is created, the efficiency metrics are written to
\* <output_dir>/<scenario>/metrics.json; when none is given or its creation
\* raises OSError, run is not ended by that, the prediction step still runs,
\* output_file is None and nothing is written.  (run ends early only in the
\* offline scenario, at line 118, before the output directory is looked at.)
C22_MetricsFileOrCallerOnly ==
    /\ spc = "returned" =>
         IF Truthy(outputDirOpt) /\ ~oserror
         THEN \E dir \in outputDirOpt :
                /\ ScenarioDir(BaseDir(dir)) \in made
                /\ output_file = {ScenarioFile(BaseDir(dir), "metrics.json")}
                /\ output_file \subseteq written
         ELSE /\ output_file = {}
              /\ written = {}
    /\ oserror =>
         /\ spc \in Predicting
         /\ output_dir = {}
         /\ made = {}
    /\ spc = "exited" =>
         /\ scenario = "offline"
         /\ ~oserror
         /\ made = {}

C22_Witness ==
    /\ spc = "returned"
    /\ scenario = "accuracy"
    /\ outputDirOpt = {"out"}
    /\ oserror
    /\ Len(results) = 2
    /\ output_file = {}
    /\ written = {}

----------------------------------------------------------------------------
(* The monitoring harness alone: no command is invoked. *)

Init ==
    /\ HInit
    /\ IIdle
    /\ DIdle
    /\ cmd = "run"
    /\ limitOpt = {}
    /\ outputDirOpt = {}
    /\ scenario = "fixed_batch"
    /\ max_batch_size = 1
    /\ instances = <<>>

Next ==
    \/ Launch /\ UNCHANGED <<mvars, ivars>>
    \/ PopenGpu /\ UNCHANGED <<mvars, ivars>>
    \/ PopenDocker /\ UNCHANGED <<mvars, ivars>>
    \/ StartTime /\ UNCHANGED <<mvars, ivars>>
    \/ Workload /\ UNCHANGED <<mvars, ivars>>
    \/ EndTime /\ UNCHANGED <<mvars, ivars>>
    \/ KillGpu /\ UNCHANGED <<mvars, ivars>>
    \/ PollGpu /\ UNCHANGED <<mvars, ivars>>
    \/ KillDocker /\ UNCHANGED <<mvars, ivars>>
    \/ PollDocker /\ UNCHANGED <<mvars, ivars>>
    \/ KillContainer /\ UNCHANGED <<mvars, ivars>>
    \/ ReadGpu /\ UNCHANGED ivars
    \/ ReadCpu /\ UNCHANGED ivars
    \/ ReadDocker /\ UNCHANGED ivars
    \/ Report /\ UNCHANGED ivars
    \/ \E s \in Samplers : SamplerWrite(s) /\ UNCHANGED <<mvars, ivars>>
    \/ \E s \in Samplers : SamplerExit(s) /\ UNCHANGED <<mvars, ivars>>

Spec == Init /\ [][Next]_vars

(* A command driving the wrapped workload over the stdio channel. *)

IpcInit == HInit /\ IInit

IpcNext ==
    \/ Cli /\ UNCHANGED <<evars, runVars, yielded, dvars>>
    \/ OutputDir /\ UNCHANGED <<evars, yielded, dvars>>
    \/ Truncate /\ UNCHANGED <<evars, runVars, yielded, dvars>>
    \/ SendRequest /\ UNCHANGED <<evars, runVars, yielded, dvars>>
    \/ ReceiveResponse /\ UNCHANGED <<evars, runVars, yielded, dvars>>
    \/ ReceiveEof /\ UNCHANGED <<evars, runVars, yielded, dvars>>
    \/ Finish /\ UNCHANGED <<evars, runVars, yielded, dvars>>
    \/ Tabulate /\ UNCHANGED <<evars, yielded, dvars>>
    \/ WrapperRead /\ UNCHANGED <<evars, runVars, yielded, dvars>>
    \/ WrapperParse /\ UNCHANGED <<evars, runVars, yielded, dvars>>
    \/ WrapperPredict /\ UNCHANGED <<evars, runVars, dvars>>
    \/ WrapperWrite /\ UNCHANGED <<evars, runVars, yielded, dvars>>
    \/ WrapperFlush /\ UNCHANGED <<evars, runVars, yielded, dvars>>

IpcSpec == IpcInit /\ [][IpcNext]_vars

(* The same, with peers that may write malformed lines. *)

IpcFaultNext ==
    \/ IpcNext
    \/ MalformedRequest /\ UNCHANGED <<evars, runVars, yielded, dvars>>
    \/ MalformedResponse /\ UNCHANGED <<evars, runVars, yielded, dvars>>

IpcFaultSpec == IpcInit /\ [][IpcFaultNext]_vars

(* The aggregation alone (lines 56-92), over files of varied contents: the *)
(* harness has reached line 56 after a run in which every sampler wrote    *)
(* its file and was signalled.                                             *)

\* What the two numeric columns of a row of sampler s's file may hold.
Readings(s) ==
    IF s = "gpu" THEN {<<10, 1>>, <<20, 2>>}
    ELSE IF s = "energy" THEN {<<10, 5>>, <<20, 5>>}
    ELSE {<<50, 50>>, <<40, 60>>, <<60, 100>>}

\* The files of sampler s of at most n data rows.
RECURSIVE Files(_, _)
Files(s, n) ==
    IF n = 0
    THEN {<<>>}
    ELSE LET shorter == Files(s, n - 1)
         IN  shorter \cup {Append(f, Row(s, 1, TRUE, v[1], v[2])) :
                             f \in shorter, v \in Readings(s)}

AggInit ==
    /\ pc = "read_gpu"
    /\ now = 11
    /\ proc = [s \in Samplers |-> "exitN"]
    /\ startedAt = [s \in Samplers |->
                      IF s = "energy" THEN 0 ELSE IF s = "gpu" THEN 1 ELSE 2]
    /\ start_time = 3
    /\ status = 0
    /\ end_time = 5
    /\ signalledAt = [s \in Samplers |->
                        IF s = "gpu" THEN 6 ELSE IF s = "docker" THEN 8 ELSE 10]
    /\ pollSeen = [s \in PopenSamplers |-> "running"]
    /\ output = <<HaltedLine("gpu"), HaltedLine("docker")>>
    /\ exists = [s \in Samplers |-> TRUE]
    /\ rows \in [Samplers -> UNION {Files(s, MaxFileRows) : s \in Samplers}]
    /\ \A s \in Samplers : rows[s] \in Files(s, MaxFileRows)
    /\ opened = {}
    /\ counted = [s \in Samplers |-> 0]
    /\ abortCause = "none"
    /\ num_cpus \in 1..MaxCpus
    /\ gpu_energy = Zero
    /\ max_gpu_mem = Zero
    /\ cpu_energy = Zero
    /\ mem_energy = Zero
    /\ cpu_util = Zero
    /\ mem_util = Zero
    /\ max_mem_util = Zero
    /\ num_rows = Zero
    /\ total_memory = 0
    /\ report = <<>>
    /\ IIdle
    /\ DIdle
    /\ cmd = "run"
    /\ limitOpt = {}
    /\ outputDirOpt = {}
    /\ scenario = "fixed_batch"
    /\ max_batch_size = 1
    /\ instances = <<>>

AggNext ==
    \/ ReadGpu /\ UNCHANGED ivars
    \/ ReadCpu /\ UNCHANGED ivars
    \/ ReadDocker /\ UNCHANGED ivars
    \/ Report /\ UNCHANGED ivars

AggSpec == AggInit /\ [][AggNext]_vars

(* The run command with its output directory: every scenario the code     *)
(* names, with the --output_dir option absent, empty or given.             *)

RunInit ==
    /\ HInit
    /\ IIdle
    /\ DIdle
    /\ cmd = "run"
    /\ limitOpt = {}
    /\ outputDirOpt \in {{}, {""}, {"out"}}
    /\ scenario \in {"single_stream", "fixed_batch", "random_batch", "offline",
                     "accuracy"}
    /\ max_batch_size \in 1..MaxBatch
    /\ instances \in SeqsUpTo(MaxInstances)

RunSpec == RunInit /\ [][IpcNext]_vars

(* Properties of DROP.get_answers. *)

\* The candidate answers of the question: the main answer, then the
\* validated answers in index order.
Asked ==
    <<qa.answer>> \o
    [i \in 1..Len(qa.validated_answers.number) |->
       [number |-> qa.validated_answers.number[i],
        date   |-> qa.validated_answers.date[i],
        spans  |-> qa.validated_answers.spans[i]]]

\* The tuple a candidate stands for: its number if it has one, else its
\* spans if it has any, else its date.
Stands(c) ==
    CASE c.number # <<>> -> <<c.number>>
      [] c.number = <<>> /\ c.spans # <<>> -> c.spans
      [] OTHER -> <<Strip(JoinBlank(c.date.day, c.date.month, c.date.year))>>

\* The first candidate that stands for the tuple t.
FirstAsked(t) ==
    CHOOSE i \in 1..Len(Asked) :
        /\ Stands(Asked[i]) = t
        /\ \A j \in 1..(i - 1) : Stands(Asked[j]) # t

\* C25: get_answers returns the parsed candidates (the main answer, then
\* the validated answers in index order; number before spans before date)
\* without duplicates and in the order of their first occurrence: no two
\* equal tuples, and the first one is the parse of the main answer.
C25_ParsedWithoutDuplicates ==
    dpc = "returned" =>
        /\ answers # <<>>
        /\ answers[1] = Stands(qa.answer)
        /\ \A i, j \in 1..Len(answers) : i # j => answers[i] # answers[j]
        /\ {answers[i] : i \in 1..Len(answers)}
             = {Stands(Asked[i]) : i \in 1..Len(Asked)}
        /\ \A i, j \in 1..Len(answers) :
             i < j => FirstAsked(answers[i]) < FirstAsked(answers[j])

\* A main answer with both a number and spans, and a validated answer that
\* was dropped as a duplicate of an earlier candidate while another was kept.
C25_Witness ==
    /\ dpc = "returned"
    /\ qa.answer.number # <<>>
    /\ qa.answer.spans # <<>>
    /\ Len(Asked) = 3
    /\ Len(answers) = 2
    /\ Stands(Asked[2]) = Stands(Asked[1])

----------------------------------------------------------------------------
(* DROP.get_answers alone, over the questions of the model. *)

DropInit ==
    /\ HInit
    /\ IIdle
    /\ DInit
    /\ cmd = "run"
    /\ limitOpt = {}
    /\ outputDirOpt = {}
    /\ scenario = "fixed_batch"
    /\ max_batch_size = 1
    /\ instances = <<>>

DropNext ==
    \/ GetAnswersCandidates /\ UNCHANGED <<evars, cfgVars, schedVars, runVars,
                                           chanVars, wrapVars, yielded>>
    \/ GetAnswersLoop /\ UNCHANGED <<evars, cfgVars, schedVars, runVars, chanVars,
                                     wrapVars, yielded>>
    \/ GetAnswersReturn /\ UNCHANGED <<evars, cfgVars, schedVars, runVars,
                                       chanVars, wrapVars, yielded>>

DropSpec == DropInit /\ [][DropNext]_vars

====
